---- MODULE Spec2Model ----
(***************************************************************************)
(* Riparian buffer compliance ETL (python-etl).                            *)
(*                                                                         *)
(* etl_pipeline.py                                                         *)
(*   PostGISWriter.upsert, statement by statement, with the database       *)
(*   statements allowed to fail                  specification SpecUpsert  *)
(*   EtlPipeline.run and run_incremental over the bronze / silver / gold   *)
(*   tables                                      specification Spec        *)
(*   the same with NDVI readings stored between runs         SpecSilver    *)
(*   _load_layer_incremental alone               specification SpecFetch   *)
(*   load_parcels and load_parcels_incremental   SpecParcels(Fair)         *)
(* ndvi_processor.py                                                       *)
(*   one reading: calculate_ndvi, classify_health            SpecReading   *)
(*   process_buffers_incremental / process_buffers_by_scene  SpecNdvi      *)
(*   incremental runs around a failure that clears           SpecHeal      *)
(*   PostGISNdviWriter.write_readings                        SpecWriter    *)
(* entrypoint.py, run_tracker.py                                           *)
(*   execute_run and the meta.etl_runs record                SpecRun       *)
(*                                                                         *)
(* A feature row is [key, val]: key is the value of the layer's conflict   *)
(* column (comid, parcel_id) or NULL, val stands for the update columns    *)
(* (attributes and geom) taken together.                                   *)
(***************************************************************************)
EXTENDS Integers, Sequences, FiniteSets, TLC

\* ------------------------------------------------------------------------
\* Bounds of the model
\* ------------------------------------------------------------------------

\* conflict-key values are 1..MaxKey
MaxKey == 2
\* number of distinct payloads (update-column values) is MaxVal
MaxVal == 2
\* longest batch handed to upsert in SpecUpsert
MaxBatch == 3
\* page size of the paginated fetch (ARCGIS_BATCH_SIZE, 1000 in the source,
\* scaled down)
ARCGIS_BATCH_SIZE == 2
\* conflict-key values the feature services return are 1..MaxSourceKey
MaxSourceKey == 1
\* longest source (rows of one layer at the feature service) of a pipeline run
MaxRows == 3
\* Sentinel-2 band values run from 0 to MaxBand
MaxBand == 23
\* the days of the season are 1..MaxDay, the buffers 1..MaxBuffer, and the
\* catalog holds up to MaxScenes scenes
MaxDay == 2
MaxBuffer == 2
MaxScenes == 3
\* execute_run is called up to MaxRuns times
MaxRuns == 2

\* a missing value (None / NaN in the data frame, NULL in the database)
NULL == 0
\* no row stored under a key
Absent == NULL

Keys == 1..MaxKey
Vals == 1..MaxVal
KeysOrNull == Keys \cup {NULL}

\* rows of a batch / of a source page
Row(k, v) == [key |-> k, val |-> v]
Rows == [key : KeysOrNull, val : Vals]

RECURSIVE SeqsUpTo(_, _)
\* all sequences over S of length at most n
SeqsUpTo(S, n) ==
    IF n = 0 THEN {<<>>}
    ELSE LET shorter == SeqsUpTo(S, n - 1)
         IN  shorter \cup {Append(s, x) : s \in {t \in shorter : Len(t) = n - 1}, x \in S}

\* ------------------------------------------------------------------------
\* Tables with a UNIQUE conflict column
\* ------------------------------------------------------------------------

\* A table is [rows, nulls]: rows maps every key to the payload stored under
\* it, or Absent; nulls counts the rows whose conflict column is NULL (a
\* UNIQUE column admits any number of them).
EmptyTable == [rows |-> [k \in Keys |-> Absent], nulls |-> 0]
KeyedTables == {[rows |-> f, nulls |-> 0] : f \in [Keys -> Vals \cup {Absent}]}

HasKey(t, k) == k \in Keys /\ t.rows[k] # Absent
TableKeys(t) == {k \in Keys : t.rows[k] # Absent}
RowCount(t) == Cardinality(TableKeys(t)) + t.nulls

\* every row of the batch is stored in the target, under its key, as it is
AlreadyUpserted(s, t) ==
    \A i \in 1..Len(s) : HasKey(t, s[i].key) /\ t.rows[s[i].key] = s[i].val

\* SQL equality on the conflict column: NULL = NULL is not true
KeyEq(a, b) == a # NULL /\ b # NULL /\ a = b

\* ------------------------------------------------------------------------
\* PostGISWriter.upsert: the pure steps
\* ------------------------------------------------------------------------

\* The staging table _staging_<table>: absent, or holding rows in ctid order.
NoTable == [exists |-> FALSE, rows |-> <<>>]
StagingTable(rows) == [exists |-> TRUE, rows |-> rows]

RECURSIVE DedupKeepFirst(_)
\* (for comparison) keep the first row of every conflict key
DedupKeepFirst(s) ==
    IF s = <<>> THEN <<>>
    ELSE LET l == s[Len(s)]
             front == SubSeq(s, 1, Len(s) - 1)
         IN  IF \E j \in 1..Len(front) : KeyEq(front[j].key, l.key)
             THEN DedupKeepFirst(front)
             ELSE Append(DedupKeepFirst(front), l)

RECURSIVE DedupStaging(_)
\* DELETE FROM staging a USING staging b
\*   WHERE a.ctid < b.ctid AND a.key = b.key
\* ctid order of the freshly written staging table is the batch order: a row
\* is deleted iff a later row carries the same non-NULL key.
DedupStaging(s) ==
    IF s = <<>> THEN <<>>
    ELSE LET h == Head(s)
             t == Tail(s)
         IN  IF \E j \in 1..Len(t) : KeyEq(h.key, t[j].key)
             THEN DedupStaging(t)
             ELSE <<h>> \o DedupStaging(t)

\* ON CONFLICT DO UPDATE refuses to touch one target row twice in one
\* command: the statement fails if two staged rows share a key.
AffectsRowTwice(s) ==
    \E i, j \in 1..Len(s) : i < j /\ KeyEq(s[i].key, s[j].key)

\* (for comparison) a merge that inserts missing keys and leaves rows that
\* already exist as they are (ON CONFLICT DO NOTHING)
MergeRowDoNothing(acc, r) ==
    IF r.key = NULL
    THEN [acc EXCEPT !.table.nulls = @ + 1, !.inserted = @ + 1]
    ELSE IF HasKey(acc.table, r.key)
         THEN acc
         ELSE [acc EXCEPT !.table.rows[r.key] = r.val, !.inserted = @ + 1]

\* One staged row of INSERT ... SELECT ... ON CONFLICT (key) DO UPDATE SET
\* <update columns> = EXCLUDED.<...>, imported_at = now()
\* RETURNING (xmax = 0) AS inserted.  acc is [table, inserted, updated].
MergeRow(acc, r) ==
    IF r.key = NULL
    THEN [acc EXCEPT !.table.nulls = @ + 1, !.inserted = @ + 1]
    ELSE IF HasKey(acc.table, r.key)
         THEN [acc EXCEPT !.table.rows[r.key] = r.val, !.updated = @ + 1]
         ELSE [acc EXCEPT !.table.rows[r.key] = r.val, !.inserted = @ + 1]

RECURSIVE MergeRows(_, _)
MergeRows(acc, s) ==
    IF s = <<>> THEN acc ELSE MergeRows(MergeRow(acc, Head(s)), Tail(s))

\* The whole merge statement on a target and the staged rows:
\* [table, inserted, updated].
MergeStaging(target, staged) ==
    MergeRows([table |-> target, inserted |-> 0, updated |-> 0], staged)

\* (for comparison) a failed merge that keeps the rows merged before the
\* failing one
KeepPartialMerge(target, staged) ==
    IF staged = <<>> THEN target
    ELSE MergeStaging(target, <<Head(staged)>>).table

\* The merge statement runs in one transaction that is committed only after
\* it and the DROP succeeded: when the statement raises, the connection is
\* closed without commit and the target is as before.
RolledBackTarget(target, staged) == target

\* What is left of the staging table when dedup or merge raises: DROP TABLE
\* is the statement after the merge in the same block, with no try/finally
\* around it, so it is not reached.
StagingAfterFailure(staged) == StagingTable(staged)

\* The value upsert returns when nothing fails: (inserted, updated), with
\* the target and the (dropped) staging table it leaves.
UpsertOk(target, gdf) ==
    LET m == MergeStaging(target, DedupStaging(gdf))
    IN  [table |-> m.table, inserted |-> m.inserted, updated |-> m.updated]

\* ------------------------------------------------------------------------
\* State
\* ------------------------------------------------------------------------

VARIABLES
    \* --- one upsert call (SpecUpsert) ---
    target,      \* the target table
    target0,     \* the target table when the call began (history)
    gdf,         \* the batch handed to upsert
    staging,     \* the staging table: NoTable or StagingTable(rows)
    upc,         \* position in upsert: stage, dedup, merge, returned, raised
    failedAt,    \* the step that raised, or "none" (history)
    result       \* the returned (inserted, updated)

uvars == <<target, target0, gdf, staging, upc, failedAt, result>>

VARIABLES
    \* --- the pipelines (Spec, SpecFetch) ---
    db,          \* the bronze, silver and gold tables (of
                 \* silver.vegetation_health the ids of the buffers that
                 \* have readings)
    mode,        \* "none", "full" (run) or "incremental" (run_incremental)
    pc,          \* position in the run
    li,          \* index in BronzeOrder of the layer being loaded
    source,      \* rows the feature service holds for that layer
    offset,      \* result_offset of the next query
    batches,     \* rows of the pages fetched so far (batches, concatenated)
    seen_ids,    \* load_parcels: parcel_ids written so far
    results,     \* LayerChangeResult per layer
    changed,     \* streams_changed, parcels_changed, buffers_changed
    ret,         \* what run_incremental returned, <<>> before
    calls,       \* collaborator calls of this run, in order (history)
    requested,   \* offsets queried in the current fetch loop (history)
    fetchedKeys, \* keys fetched in the current layer's loop (history)
    sameAsStored,\* the rows fetched in this run so far are exactly the rows
                 \* the bronze tables held (history)
    handed       \* rows handed to upsert in the current layer's load, in
                 \* order (history)

pvars == <<db, mode, pc, li, source, offset, batches, seen_ids, results, changed, ret,
           calls, requested, fetchedKeys, sameAsStored, handed>>

VARIABLES
    \* --- one NDVI reading (SpecReading) ---
    nir,            \* NIR (B08) value of the buffer's pixel
    red,            \* Red (B04) value of the buffer's pixel
    acq_month,      \* month of the scene's acquisition date
    ndvi_array,     \* the index of the pixel, a fraction [num, den]
    mean_ndvi,      \* the reading's mean index value
    season_context, \* the reading's season
    health_category,\* the reading's health category
    rpc             \* "idle", "scene" (bands read) or "reading" (extracted)

rvars == <<nir, red, acq_month, ndvi_array, mean_ndvi, season_context, health_category, rpc>>

VARIABLES
    \* --- NDVI extraction runs (SpecNdvi) ---
    vegetation_health, \* keys of the rows of silver.vegetation_health
    today,          \* the current date
    catalog,        \* the scenes of the imagery catalog, in catalog order
    npc,            \* "idle", "search", "scenes", "write", "done" or "raised"
    nmode,          \* "none", "incremental" or "full"
    window,         \* (start, end) of the run's date range
    processed,      \* the processed-key set loaded by the run
    items,          \* the scenes the catalog search returned
    si,             \* index in items of the scene to process next
    all_readings,   \* keys of the readings extracted so far
    nret,           \* <<count>> once the run has returned, <<>> before
    searches,       \* catalog searches of this run (history)
    band_reads,     \* the calls of read_band_window: (index of the scene,
                    \* band) (history)
    written,        \* the lists handed to write_readings in this run (history)
    outcome,        \* how the run ended: "noop", "no_scenes", "wrote",
                    \* "raised" (history)
    health0,        \* vegetation_health when the run began (history)
    prev,           \* mode, date and outcome of the previous run (history)
    returned,       \* per outcome, the values returned so far (history)
    interfered,     \* another process wrote during this run (history)
    healed          \* the scene whose failure was cleared, and whether a
                    \* run began since (history)

xvars == <<vegetation_health, today, catalog, npc, nmode, window, processed,
           items, si, all_readings, nret, searches, band_reads, written,
           outcome, health0, prev, returned, interfered, healed>>

nvars == <<rvars, xvars>>

VARIABLES
    \* --- PostGISNdviWriter.write_readings (SpecWriter) ---
    vh_rows,        \* the rows of silver.vegetation_health: (key, value)
    vh_rows0,       \* the rows before the first call (history)
    params,         \* the rows built from the list handed to write_readings
    vh_once,        \* the rows after the first call (history)
    wret,           \* what the calls returned, in order
    wpc             \* "idle", "call" (list chosen), "once", "twice"

wvars == <<vh_rows, vh_rows0, params, vh_once, wret, wpc>>

VARIABLES
    \* --- entrypoint.execute_run and RunTracker (SpecRun) ---
    etl_runs,       \* the rows of meta.etl_runs, by id
    update_type,    \* the argument of execute_run
    epc,            \* "idle", "start", "body", "complete", "except",
                    \* "returned" or "raised"
    estep,          \* index of the next call of the branch taken
    exc,            \* the exception caught by except Exception, or NoExc
    elocals,        \* change flags and reading count the calls returned
    escaped         \* the exception execute_run raised to its caller, or
                    \* NoExc

evars == <<etl_runs, update_type, epc, estep, exc, elocals, escaped>>

vars == <<uvars, pvars, nvars, wvars, evars>>

\* ------------------------------------------------------------------------
\* The pipelines: data and pure steps
\* ------------------------------------------------------------------------

\* rows the feature services return in a pipeline run
SourceKeys == 1..MaxSourceKey
StreamSourceRows == [key : SourceKeys, val : Vals]
\* a parcel may come without parcel_id
ParcelSourceRows == StreamSourceRows \cup {Row(NULL, v) : v \in Vals}

\* (for comparison) parcels loaded before the NHDPlus layers
BronzeOrderParcelsFirst == <<"parcels", "streams", "waterbodies">>
\* the order in which both pipelines load the bronze layers
BronzeOrder == <<"streams", "waterbodies", "parcels">>
Layers == {"streams", "waterbodies", "parcels"}

\* the study area's watershed
HUC8_CODE == "14080101"

\* a call of a collaborator or of a derived recompute, as the run's log keeps it
Call(op, arg) == [op |-> op, arg |-> arg]

\* a feature whose COMID is missing, or is one that
\* pd.to_numeric(errors="coerce") turns into <NA>
NullKeyFeature == Row(NULL, 1)
\* the sources of SpecFetch: up to two full pages (and the empty third)
FetchSources ==
    SeqsUpTo(StreamSourceRows \cup {NullKeyFeature}, 2 * ARCGIS_BATCH_SIZE)

LayerSources(l) ==
    IF l = "parcels" THEN SeqsUpTo(ParcelSourceRows, MaxRows)
    ELSE SeqsUpTo(StreamSourceRows, MaxRows)

\* LayerChangeResult(layer_name, inserted, updated, skipped)
LayerChangeResult(i, u, k) == [inserted |-> i, updated |-> u, skipped |-> k]
NoResult == LayerChangeResult(0, 0, 0)

\* LayerChangeResult.has_changes
has_changes(r) == r.inserted > 0 \/ r.updated > 0

\* the combined "nhdplus" result of load_nhdplus_layers_incremental
CombineResults(a, b) ==
    LayerChangeResult(a.inserted + b.inserted, a.updated + b.updated,
                      a.skipped + b.skipped)

\* the gates of run_incremental
BuffersGate(streams_changed) == streams_changed
\* (for comparison) compliance recomputed only when parcels changed
ComplianceGateParcelsOnly(parcels_changed, buffers_changed) == parcels_changed
ComplianceGate(parcels_changed, buffers_changed) ==
    parcels_changed \/ buffers_changed
\* (for comparison) summary recomputed on every run
SummaryGateAlways(streams_changed, parcels_changed, buffers_changed) == TRUE
SummaryGate(streams_changed, parcels_changed, buffers_changed) ==
    streams_changed \/ parcels_changed \/ buffers_changed

Min(a, b) == IF a < b THEN a ELSE b

\* FeatureClient.query(result_offset = off, result_record_count = n) on a
\* finite source: the rows off+1 .. off+n, fewer or none at the end
QueryPage(src, off, n) == SubSeq(src, off + 1, Min(off + n, Len(src)))

\* offset += ARCGIS_BATCH_SIZE
NextOffset(off) == off + ARCGIS_BATCH_SIZE

\* (for comparison) a loop that goes on after a short page
LastPageNever(page) == FALSE
\* len(batch) < ARCGIS_BATCH_SIZE: the page was the last one
LastPage(page) == Len(page) < ARCGIS_BATCH_SIZE

\* batches.append(batch), and pd.concat(batches) at the end
ConcatBatches(bs, page) == bs \o page

\* gdf.dropna(subset=["parcel_id"])
DropNullKeys(s) == SelectSeq(s, LAMBDA r : r.key # NULL)

\* the non-NULL conflict keys of a sequence of rows
SeqKeys(s) == {s[i].key : i \in 1..Len(s)} \ {NULL}

\* the table a write of duplicate-free rows appends to an empty table
RECURSIVE drop_duplicates(_)
\* gdf.drop_duplicates(subset=["parcel_id"], keep="first") in load_parcels:
\* of the rows of one page that share a parcel_id the first is kept.
drop_duplicates(s) ==
    IF s = <<>> THEN <<>>
    ELSE LET l == s[Len(s)]
             front == SubSeq(s, 1, Len(s) - 1)
         IN  IF \E j \in 1..Len(front) : front[j].key = l.key
             THEN drop_duplicates(front)
             ELSE Append(drop_duplicates(front), l)

RECURSIVE WriteRows(_, _)
WriteRows(t, s) ==
    IF s = <<>> THEN t
    ELSE LET r == Head(s)
         IN  WriteRows(IF r.key = NULL
                       THEN [t EXCEPT !.nulls = @ + 1]
                       ELSE [t EXCEPT !.rows[r.key] = r.val],
                       Tail(s))

\* _GENERATE_BUFFERS_SQL: one buffer per row of bronze.streams, around its geom
GenerateBuffersSql(d) == d.streams

\* geometries a && b AND ST_Intersects(a, b), overlap above 1 sq m
Intersects(a, b) == a = b

\* _ANALYZE_COMPLIANCE_SQL: the (parcel, buffer) pairs that overlap
AnalyzeComplianceSql(d) ==
    {pb \in TableKeys(d.parcels) \X TableKeys(d.buffers) :
        Intersects(d.parcels.rows[pb[1]], d.buffers.rows[pb[2]])}

\* _CALCULATE_SUMMARY_SQL: one row per watershed
CalculateSummarySql(d) ==
    IF d.watersheds = {} THEN {}
    ELSE {[streams |-> RowCount(d.streams),
           buffers |-> Cardinality(TableKeys(d.buffers) \cap TableKeys(d.streams)),
           parcels |-> RowCount(d.parcels),
           focus   |-> Cardinality({pb[1] : pb \in
                          {x \in d.compliance : HasKey(d.parcels, x[1])}})]}

\* TRUNCATE ... CASCADE also empties the tables that reference the table:
\* gold.riparian_summary -> bronze.watersheds; silver.riparian_buffers ->
\* bronze.streams; silver.parcel_compliance -> bronze.parcels and
\* silver.riparian_buffers; silver.vegetation_health ->
\* silver.riparian_buffers.
TruncateCascade(d, t) ==
    IF t = "watersheds" THEN [d EXCEPT !.watersheds = {}, !.summary = {}]
    ELSE IF t = "streams"
         THEN [d EXCEPT !.streams = EmptyTable, !.buffers = EmptyTable,
                        !.compliance = {}, !.vegetation_health = {}]
    ELSE IF t = "parcels"
         THEN [d EXCEPT !.parcels = EmptyTable, !.compliance = {}]
    ELSE IF t = "riparian_buffers"
         THEN [d EXCEPT !.buffers = EmptyTable, !.compliance = {},
                        !.vegetation_health = {}]
    ELSE [d EXCEPT ![t] = EmptyTable]

\* EtlPipeline.generate_buffers
generate_buffers(d) ==
    LET e == TruncateCascade(d, "riparian_buffers")
    IN  [e EXCEPT !.buffers = GenerateBuffersSql(e)]

\* EtlPipeline.analyze_compliance
analyze_compliance(d) ==
    LET e == [d EXCEPT !.compliance = {}]
    IN  [e EXCEPT !.compliance = AnalyzeComplianceSql(e)]

\* EtlPipeline.calculate_summary
calculate_summary(d) ==
    LET e == [d EXCEPT !.summary = {}]
    IN  [e EXCEPT !.summary = CalculateSummarySql(e)]

\* the database before the first run
EmptyDb ==
    [watersheds |-> {}, streams |-> EmptyTable, waterbodies |-> EmptyTable,
     parcels |-> EmptyTable, buffers |-> EmptyTable, compliance |-> {},
     summary |-> {}, vegetation_health |-> {}]

NoFlags == [streams |-> FALSE, parcels |-> FALSE, buffers |-> FALSE]

\* no run has begun
PipelineIdle ==
    /\ db = EmptyDb
    /\ mode = "none"
    /\ pc = "idle"
    /\ li = 1
    /\ source = <<>>
    /\ offset = 0
    /\ batches = <<>>
    /\ seen_ids = {}
    /\ results = [l \in Layers |-> NoResult]
    /\ changed = NoFlags
    /\ ret = <<>>
    /\ calls = <<>>
    /\ requested = <<>>
    /\ fetchedKeys = {}
    /\ sameAsStored = TRUE
    /\ handed = <<>>

\* no upsert call is being followed statement by statement
UpsertIdle ==
    /\ target = EmptyTable
    /\ target0 = EmptyTable
    /\ staging = NoTable
    /\ upc = "returned"
    /\ failedAt = "none"

\* ------------------------------------------------------------------------
\* NDVI (ndvi_processor.py): the pure functions
\* ------------------------------------------------------------------------

\* An index value is the fraction num / den of two integers, den >= 0; the
\* float values that are no numbers have den = 0: 0/0 is NaN, 1/0 and -1/0
\* are the infinities.
Frac(n, d) == [num |-> n, den |-> d]
Zero == Frac(0, 1)
\* np.isfinite
IsFinite(x) == x.den # 0
\* x > a / b  and  x >= a / b,  for a finite x and b > 0
Above(x, a, b) == x.num * b > a * x.den
AtLeast(x, a, b) == x.num * b >= a * x.den

Months == 1..12
\* PEAK_GROWING_MONTHS = frozenset({6, 7, 8})
PEAK_GROWING_MONTHS == {6, 7, 8}

determine_season(month) ==
    IF month \in PEAK_GROWING_MONTHS THEN "peak_growing" ELSE "dormant"

\* (for comparison) 'healthy' from 0.3 on
classify_health_from_high(mean, season) ==
    IF season = "dormant" THEN "dormant"
    ELSE IF AtLeast(mean, 3, 10) THEN "healthy"
    ELSE IF AtLeast(mean, 15, 100) THEN "degraded"
    ELSE "bare"
classify_health(mean, season) ==
    IF season = "dormant" THEN "dormant"
    ELSE IF Above(mean, 3, 10) THEN "healthy"
    ELSE IF AtLeast(mean, 15, 100) THEN "degraded"
    ELSE "bare"

\* (nir_f - red_f) / (nir_f + red_f) under np.errstate(divide="ignore",
\* invalid="ignore"): x/0 is an infinity and 0/0 is NaN, without an error
FloatDivide(n, d) ==
    IF d # 0 THEN Frac(n, d)
    ELSE IF n > 0 THEN Frac(1, 0)
    ELSE IF n < 0 THEN Frac(-1, 0)
    ELSE Frac(0, 0)

\* (for comparison) the quotient as it is, without np.where
calculate_ndvi_raw(n, r) == FloatDivide(n - r, n + r)
\* np.where(np.isfinite(ndvi), ndvi, 0.0)
calculate_ndvi(n, r) ==
    LET ndvi == FloatDivide(n - r, n + r)
    IN  IF IsFinite(ndvi) THEN ndvi ELSE Zero

\* compute_ndvi_stats on the pixels of a buffer that covers one pixel: the
\* value if it is valid (finite, in [-1, 1]), and 0.0 if no pixel is valid
compute_ndvi_stats(x) ==
    IF IsFinite(x) /\ AtLeast(x, -1, 1) /\ ~Above(x, 1, 1) THEN x ELSE Zero

\* ------------------------------------------------------------------------
\* NDVI extraction runs: data and pure steps
\* ------------------------------------------------------------------------

\* A date is the number of its day; day 1 is June 1 of the current year
\* (date(datetime.now().year, 6, 1)) and day 0 the day before.
June1 == 1
Days == 0..MaxDay
SceneDays == June1..MaxDay
\* ids of the rows of silver.riparian_buffers
Buffers == 1..MaxBuffer

\* acquisition_date::TEXT and str(acq_date) both write a date as YYYY-MM-DD
IsoText(d) == <<"YYYY-MM-DD", d>>
\* (buffer_id, date_str, satellite); NdviReading.satellite is "Sentinel-2"
Key(b, d) == <<b, IsoText(d), "Sentinel-2">>
KeyDate(k) == k[2][2]
NoKeys == {}

\* What can go wrong with a scene: an asset B04 or B08 is missing, the item
\* has no datetime, a band cannot be read (rasterio.RasterioIOError), a
\* geometry is invalid (ValueError), or an exception of another class is
\* raised (rasterio.errors.WindowError from window.intersection for a scene
\* that does not overlap the watershed, a pyproj error, MemoryError).
ParseFaults == {"missing_band", "no_datetime"}
RaisedFaults == {"io_error", "value_error"}
UncaughtFaults == {"window_error"}
\* the two assets of a scene that are read
Bands == {"B08", "B04"}
\* a scene: its acquisition date, its fault, and the buffers a reading can
\* be extracted for (they intersect the scene and have pixels in it)
Scene(d, f, c) == [date |-> d, fault |-> f, covers |-> c]
Scenes ==
    {Scene(d, "none", c) : d \in SceneDays, c \in (SUBSET Buffers) \ {{}}}
    \cup {Scene(d, f, {}) : d \in SceneDays,
                              f \in ParseFaults \cup RaisedFaults \cup UncaughtFaults}
Catalogs == SeqsUpTo(Scenes, MaxScenes)

\* SELECT MAX(acquisition_date) FROM silver.vegetation_health; 0 stands for
\* None
get_last_ndvi_date(h) ==
    IF h = {} THEN NULL
    ELSE CHOOSE d \in {KeyDate(k) : k \in h} :
            \A k \in h : KeyDate(k) <= d

\* (for comparison) a window that starts on the last date itself
WindowStartOnLastDate(last) == IF last # NULL THEN last ELSE June1
\* start = last_date + timedelta(days=1), or June 1 of this year
WindowStart(last) == IF last # NULL THEN last + 1 ELSE June1

\* searcher.search_items: the scenes acquired within the date range (and
\* not after today), in catalog order
search_items(c, w, now) ==
    SelectSeq(c, LAMBDA s : w[1] <= s.date /\ s.date <= w[2] /\ s.date <= now)

\* _parse_stac_item returns None
ParsedNone(item) == item.fault \in ParseFaults

\* the buffers no reading of this date is stored for
Unprocessed(d, done) == {b \in Buffers : Key(b, d) \notin done}

RECURSIVE ReadingsFrom(_, _, _)
\* the readings of the buffers b..MaxBuffer the scene yields, by buffer id,
\* without those whose key is in done
ReadingsFrom(b, item, done) ==
    IF b > MaxBuffer THEN <<>>
    ELSE (IF b \in item.covers /\ Key(b, item.date) \notin done
          THEN <<Key(b, item.date)>> ELSE <<>>)
         \o ReadingsFrom(b + 1, item, done)

\* (for comparison) a scene that yields readings for processed keys too
SceneReadingsAll(item, done) == ReadingsFrom(1, item, NoKeys)
\* _process_scene_incremental: the loop over the relevant buffers
SceneReadings(item, done) == ReadingsFrom(1, item, done)

\* (for comparison) region-first: the bands are read for every buffer
SceneBandReadsPerBuffer(i) ==
    [k \in 1..(2 * MaxBuffer) |-> <<i, IF k % 2 = 1 THEN "B08" ELSE "B04">>]
\* _process_scene, _process_scene_incremental: read_band_window(nir_href),
\* then read_band_window(red_href), once for scene i
SceneBandReads(i) == <<<<i, "B08">>, <<i, "B04">>>>

\* (for comparison) a failure that ends the loop over the scenes
AfterFailureBreak(i, n) == n + 1
\* except (RasterioIOError, ValueError): ... continue
AfterFailure(i, n) == i + 1

\* (for comparison) a writer that stores nothing
write_readings_nowhere(h, readings) == h
\* INSERT INTO silver.vegetation_health ... ON CONFLICT DO NOTHING
write_readings(h, readings) ==
    h \cup {readings[i] : i \in 1..Len(readings)}

NoRun == [mode |-> "none", today |-> 0, interfered |-> FALSE, outcome |-> "none"]

\* no failure of a scene has been cleared
NoHeal == [scene |-> 0, rerun |-> FALSE]

\* no extraction run has begun
ExtractionIdle ==
    /\ vegetation_health = {}
    /\ today = 0
    /\ catalog = <<>>
    /\ npc = "idle"
    /\ nmode = "none"
    /\ window = <<0, 0>>
    /\ processed = {}
    /\ items = <<>>
    /\ si = 1
    /\ all_readings = <<>>
    /\ nret = <<>>
    /\ searches = 0
    /\ band_reads = <<>>
    /\ written = <<>>
    /\ outcome = "none"
    /\ health0 = {}
    /\ prev = NoRun
    /\ returned = [noop |-> {}, no_scenes |-> {}]
    /\ interfered = FALSE
    /\ healed = NoHeal

\* no reading is being extracted
ReadingIdle ==
    /\ nir = 0
    /\ red = 0
    /\ acq_month = 1
    /\ ndvi_array = Zero
    /\ mean_ndvi = Zero
    /\ season_context = "none"
    /\ health_category = "none"
    /\ rpc = "idle"

NdviIdle == ReadingIdle /\ ExtractionIdle

\* write_readings is not being followed
WriterIdle ==
    /\ vh_rows = {}
    /\ vh_rows0 = {}
    /\ params = <<>>
    /\ vh_once = {}
    /\ wret = <<>>
    /\ wpc = "idle"

\* no exception
NoExc == "none"
NoLocals == [run_id |-> 0, flags |-> <<FALSE, FALSE, FALSE>>, count |-> 0]

\* execute_run has not been called
TrackerIdle ==
    /\ etl_runs = <<>>
    /\ update_type = "none"
    /\ epc = "idle"
    /\ estep = 1
    /\ exc = NoExc
    /\ elocals = NoLocals
    /\ escaped = NoExc

\* ------------------------------------------------------------------------
\* PostGISWriter.upsert, one statement per action
\* ------------------------------------------------------------------------

UpsertInit ==
    /\ target \in KeyedTables
    /\ target0 = target
    /\ gdf \in SeqsUpTo(Rows, MaxBatch)
    /\ staging = NoTable
    /\ upc = "stage"
    /\ failedAt = "none"
    /\ result = <<0, 0>>
    /\ PipelineIdle
    /\ NdviIdle
    /\ WriterIdle
    /\ TrackerIdle

\* gdf.to_postgis(staging, if_exists="replace")
UpsertStage ==
    /\ upc = "stage"
    /\ staging' = StagingTable(gdf)
    /\ upc' = "dedup"
    /\ UNCHANGED <<pvars, nvars, wvars, evars>>
    /\ UNCHANGED <<target, target0, gdf, failedAt, result>>

\* to_postgis raises: its transaction is rolled back, nothing was staged
UpsertStageFails ==
    /\ upc = "stage"
    /\ upc' = "raised"
    /\ failedAt' = "stage"
    /\ UNCHANGED <<pvars, nvars, wvars, evars>>
    /\ UNCHANGED <<target, target0, gdf, staging, result>>

\* conn.execute(dedup_sql); conn.commit()
UpsertDedup ==
    /\ upc = "dedup"
    /\ staging' = StagingTable(DedupStaging(staging.rows))
    /\ upc' = "merge"
    /\ UNCHANGED <<pvars, nvars, wvars, evars>>
    /\ UNCHANGED <<target, target0, gdf, failedAt, result>>

UpsertDedupFails ==
    /\ upc = "dedup"
    /\ staging' = StagingAfterFailure(staging.rows)
    /\ upc' = "raised"
    /\ failedAt' = "dedup"
    /\ UNCHANGED <<pvars, nvars, wvars, evars>>
    /\ UNCHANGED <<target, target0, gdf, result>>

\* conn.execute(upsert_sql); DROP TABLE IF EXISTS staging; conn.commit();
\* return (inserted, updated)
UpsertMerge ==
    /\ upc = "merge"
    /\ ~AffectsRowTwice(staging.rows)
    /\ LET m == MergeStaging(target, staging.rows)
       IN  /\ target' = m.table
           /\ result' = <<m.inserted, m.updated>>
    /\ staging' = NoTable
    /\ upc' = "returned"
    /\ UNCHANGED <<pvars, nvars, wvars, evars>>
    /\ UNCHANGED <<target0, gdf, failedAt>>

\* the merge statement raises (a constraint other than the conflict key, a
\* lost connection, a row affected twice)
UpsertMergeFails ==
    /\ upc = "merge"
    /\ target' = RolledBackTarget(target, staging.rows)
    /\ staging' = StagingAfterFailure(staging.rows)
    /\ upc' = "raised"
    /\ failedAt' = "merge"
    /\ UNCHANGED <<pvars, nvars, wvars, evars>>
    /\ UNCHANGED <<target0, gdf, result>>

UpsertNext ==
    \/ UpsertStage
    \/ UpsertStageFails
    \/ UpsertDedup
    \/ UpsertDedupFails
    \/ UpsertMerge
    \/ UpsertMergeFails

SpecUpsert == UpsertInit /\ [][UpsertNext]_vars

\* ------------------------------------------------------------------------
\* EtlPipeline.run and EtlPipeline.run_incremental, one step per action
\* ------------------------------------------------------------------------

Init ==
    /\ PipelineIdle
    /\ UpsertIdle
    /\ NdviIdle
    /\ WriterIdle
    /\ TrackerIdle
    /\ gdf = <<>>
    /\ result = <<0, 0>>

IdleUpsert == UNCHANGED <<target, target0, staging, upc, failedAt>>

\* the layer being loaded
Layer == BronzeOrder[li]

\* the loaders have returned: their locals, and the service contents they
\* read, are gone
LeaveLoaders ==
    /\ source' = <<>>
    /\ offset' = 0
    /\ batches' = <<>>
    /\ seen_ids' = {}
    /\ requested' = <<>>
    /\ fetchedKeys' = {}
    /\ handed' = <<>>
    /\ gdf' = <<>>
    /\ result' = <<0, 0>>

\* main() / execute_run: a run begins, full or incremental
StartRun ==
    /\ pc \in {"idle", "done", "failed"}
    /\ \E m \in {"full", "incremental"} : mode' = m
    /\ pc' = "watershed"
    /\ li' = 1
    /\ source' = <<>>
    /\ offset' = 0
    /\ batches' = <<>>
    /\ seen_ids' = {}
    /\ results' = [l \in Layers |-> NoResult]
    /\ changed' = NoFlags
    /\ ret' = <<>>
    /\ calls' = <<>>
    /\ requested' = <<>>
    /\ fetchedKeys' = {}
    /\ handed' = <<>>
    /\ sameAsStored' = TRUE
    /\ gdf' = <<>>
    /\ result' = <<0, 0>>
    /\ UNCHANGED db
    /\ IdleUpsert
    /\ UNCHANGED <<nvars, wvars, evars>>

\* EtlPipeline.load_watershed
LoadWatershed ==
    /\ pc = "watershed"
    /\ \E found \in BOOLEAN :
          IF ~found
          THEN /\ pc' = "failed"
               /\ UNCHANGED <<db, calls>>
          ELSE /\ db' = [TruncateCascade(db, "watersheds")
                           EXCEPT !.watersheds = {HUC8_CODE}]
               /\ calls' = Append(calls, Call("load_watershed", "watersheds"))
               /\ pc' = "begin"
    /\ UNCHANGED <<mode, li, source, offset, batches, seen_ids, results,
                   changed, ret, requested, fetchedKeys, sameAsStored, gdf, result,
                   handed>>
    /\ IdleUpsert
    /\ UNCHANGED <<nvars, wvars, evars>>

\* where a run goes on when layer li is loaded
AfterLayer ==
    IF li < Len(BronzeOrder) THEN "begin"
    ELSE IF mode = "full" THEN "buffers" ELSE "flags"

\* load_nhdplus_layers(_incremental), load_parcels(_incremental): the
\* envelope lookup and the start of a layer's pagination
BeginLayer ==
    /\ pc = "begin"
    /\ IF db.watersheds = {}
       THEN /\ pc' = "failed"
            /\ UNCHANGED <<db, source>>
       ELSE /\ \E src \in LayerSources(Layer) : source' = src
            /\ pc' = IF Layer = "parcels" THEN "parcels" ELSE "fetch"
            /\ db' = IF Layer = "parcels" /\ mode = "full"
                     THEN TruncateCascade(db, "parcels")
                     ELSE db
    /\ offset' = 0
    /\ batches' = <<>>
    /\ seen_ids' = {}
    /\ requested' = <<>>
    /\ fetchedKeys' = {}
    /\ handed' = <<>>
    /\ gdf' = <<>>
    /\ result' = <<0, 0>>
    /\ UNCHANGED <<mode, li, results, changed, ret, calls, sameAsStored>>
    /\ IdleUpsert
    /\ UNCHANGED <<nvars, wvars, evars>>

\* one iteration of the while loop of _load_layer / _load_layer_incremental
FetchPage ==
    /\ pc = "fetch"
    /\ LET batch == QueryPage(source, offset, ARCGIS_BATCH_SIZE)
       IN  /\ requested' = Append(requested, offset)
           /\ fetchedKeys' = fetchedKeys \cup SeqKeys(batch)
           /\ IF batch = <<>>
              THEN /\ pc' = "store"
                   /\ UNCHANGED <<batches, offset>>
              ELSE /\ batches' = ConcatBatches(batches, batch)
                   /\ offset' = NextOffset(offset)
                   /\ pc' = IF LastPage(batch) THEN "store" ELSE "fetch"
    /\ UNCHANGED <<db, mode, li, source, seen_ids, results, changed, ret,
                   calls, sameAsStored, gdf, result, handed>>
    /\ IdleUpsert
    /\ UNCHANGED <<nvars, wvars, evars>>

\* the rest of _load_layer_incremental (upsert the concatenated batches) or
\* of _load_layer (truncate and write them)
StoreLayer ==
    /\ pc = "store"
    /\ IF batches = <<>>
       THEN /\ pc' = AfterLayer
            /\ sameAsStored' = (sameAsStored /\ TableKeys(db[Layer]) = {})
            /\ UNCHANGED <<db, results, calls, gdf, result, handed>>
       ELSE IF mode = "incremental"
       THEN LET u == UpsertOk(db[Layer], batches)
            IN  /\ db' = [db EXCEPT ![Layer] = u.table]
                /\ results' = [results EXCEPT ![Layer] =
                       LayerChangeResult(u.inserted, u.updated,
                           Len(batches) - u.inserted - u.updated)]
                /\ gdf' = batches
                /\ handed' = handed \o batches
                /\ result' = <<u.inserted, u.updated>>
                /\ calls' = Append(calls, Call("upsert", Layer))
                /\ sameAsStored' = (/\ sameAsStored
                                    /\ AlreadyUpserted(batches, db[Layer])
                                    /\ TableKeys(db[Layer]) \subseteq fetchedKeys)
                /\ pc' = AfterLayer
       ELSE LET e == TruncateCascade(db, Layer)
            IN  /\ calls' = Append(calls, Call("write", Layer))
                /\ IF AffectsRowTwice(batches)
                   THEN /\ db' = e
                        /\ pc' = "failed"
                   ELSE /\ db' = [e EXCEPT ![Layer] = WriteRows(EmptyTable, batches)]
                        /\ pc' = AfterLayer
                /\ UNCHANGED <<results, sameAsStored, gdf, result, handed>>
    /\ li' = IF pc' = "begin" THEN li + 1 ELSE li
    /\ UNCHANGED <<mode, source, offset, batches, seen_ids, changed, ret,
                   requested, fetchedKeys>>
    /\ IdleUpsert
    /\ UNCHANGED <<nvars, wvars, evars>>

\* one iteration of the while loop of load_parcels_incremental
ParcelsPageIncremental ==
    /\ pc = "parcels"
    /\ mode = "incremental"
    /\ LET page == QueryPage(source, offset, ARCGIS_BATCH_SIZE)
           g == DropNullKeys(page)
           u == UpsertOk(db.parcels, g)
           same == sameAsStored /\ AlreadyUpserted(page, db.parcels)
       IN  /\ fetchedKeys' = fetchedKeys \cup SeqKeys(page)
           /\ IF page = <<>>
              THEN /\ pc' = AfterLayer
                   /\ UNCHANGED <<db, results, calls, gdf, result, offset,
                                  handed>>
              ELSE IF g = <<>>
              THEN /\ offset' = NextOffset(offset)
                   /\ pc' = "parcels"
                   /\ UNCHANGED <<db, results, calls, gdf, result, handed>>
              ELSE /\ db' = [db EXCEPT !.parcels = u.table]
                   /\ results' = [results EXCEPT !.parcels =
                          CombineResults(@, LayerChangeResult(u.inserted,
                              u.updated, Len(g) - u.inserted - u.updated))]
                   /\ gdf' = g
                   /\ handed' = handed \o g
                   /\ result' = <<u.inserted, u.updated>>
                   /\ calls' = Append(calls, Call("upsert", "parcels"))
                   /\ offset' = NextOffset(offset)
                   /\ pc' = IF LastPage(g) THEN AfterLayer ELSE "parcels"
           /\ sameAsStored' =
                 IF pc' = "parcels" THEN same
                 ELSE same /\ TableKeys(db.parcels) \subseteq fetchedKeys'
    /\ li' = IF pc' = "begin" THEN li + 1 ELSE li
    /\ UNCHANGED <<mode, source, batches, seen_ids, changed, ret, requested>>
    /\ IdleUpsert
    /\ UNCHANGED <<nvars, wvars, evars>>

\* load_parcels, top of the while loop: gdf = self._client.query(...)
ParcelsQueryFull ==
    /\ pc = "parcels"
    /\ mode = "full"
    /\ gdf' = QueryPage(source, offset, ARCGIS_BATCH_SIZE)
    /\ pc' = "parcels_page"
    /\ UNCHANGED <<db, mode, li, source, offset, batches, seen_ids, results,
                   changed, ret, calls, requested, fetchedKeys, sameAsStored,
                   result, handed>>
    /\ IdleUpsert
    /\ UNCHANGED <<nvars, wvars, evars>>

\* load_parcels, the rest of the iteration: the filters, the write and the
\* tests that end or repeat the loop
ParcelsPageFull ==
    /\ pc = "parcels_page"
    /\ mode = "full"
    /\ LET page == gdf
           g == drop_duplicates(DropNullKeys(page))
           new == SelectSeq(g, LAMBDA r : r.key \notin seen_ids)
       IN  /\ IF page = <<>>
              THEN /\ pc' = AfterLayer
                   /\ UNCHANGED <<db, seen_ids, calls, offset, gdf>>
              ELSE IF new = <<>>
              THEN \* continue, with the offset as it is
                   /\ pc' = "parcels"
                   /\ gdf' = new
                   /\ UNCHANGED <<db, seen_ids, calls, offset>>
              ELSE /\ seen_ids' = seen_ids \cup {new[i].key : i \in 1..Len(new)}
                   /\ db' = [db EXCEPT !.parcels = WriteRows(@, new)]
                   /\ calls' = Append(calls, Call("write", "parcels"))
                   /\ offset' = NextOffset(offset)
                   /\ gdf' = new
                   /\ pc' = IF LastPage(new) THEN AfterLayer ELSE "parcels"
    /\ li' = IF pc' = "begin" THEN li + 1 ELSE li
    /\ UNCHANGED <<mode, source, batches, results, changed, ret, requested,
                   fetchedKeys, sameAsStored, result, handed>>
    /\ IdleUpsert
    /\ UNCHANGED <<nvars, wvars, evars>>

\* run_incremental: streams_changed, parcels_changed, buffers_changed = False
ComputeFlags ==
    /\ pc = "flags"
    /\ changed' =
          [streams |-> has_changes(CombineResults(results.streams,
                                                  results.waterbodies)),
           parcels |-> has_changes(results.parcels),
           buffers |-> FALSE]
    /\ pc' = "buffers"
    /\ LeaveLoaders
    /\ UNCHANGED <<db, mode, li, results, ret, calls, sameAsStored>>
    /\ IdleUpsert
    /\ UNCHANGED <<nvars, wvars, evars>>

\* run: generate_buffers();  run_incremental: if streams_changed: ...
BuffersStep ==
    /\ pc = "buffers"
    /\ IF mode = "full" \/ BuffersGate(changed.streams)
       THEN /\ db' = generate_buffers(db)
            /\ calls' = Append(calls, Call("generate_buffers", "riparian_buffers"))
            /\ changed' = [changed EXCEPT !.buffers = (mode = "incremental")]
       ELSE UNCHANGED <<db, calls, changed>>
    /\ pc' = "compliance"
    /\ LeaveLoaders
    /\ UNCHANGED <<mode, li, results, ret, sameAsStored>>
    /\ IdleUpsert
    /\ UNCHANGED <<nvars, wvars, evars>>

\* run: analyze_compliance();  run_incremental: if parcels_changed or
\* buffers_changed: ...
ComplianceStep ==
    /\ pc = "compliance"
    /\ IF mode = "full" \/ ComplianceGate(changed.parcels, changed.buffers)
       THEN /\ db' = analyze_compliance(db)
            /\ calls' = Append(calls, Call("analyze_compliance", "parcel_compliance"))
       ELSE UNCHANGED <<db, calls>>
    /\ pc' = "summary"
    /\ UNCHANGED <<mode, li, source, offset, batches, seen_ids, results,
                   changed, ret, requested, fetchedKeys, sameAsStored, gdf, result,
                   handed>>
    /\ IdleUpsert
    /\ UNCHANGED <<nvars, wvars, evars>>

\* run: calculate_summary();  run_incremental: if any flag: ...; return
SummaryStep ==
    /\ pc = "summary"
    /\ IF mode = "full"
          \/ SummaryGate(changed.streams, changed.parcels, changed.buffers)
       THEN /\ db' = calculate_summary(db)
            /\ calls' = Append(calls, Call("calculate_summary", "riparian_summary"))
       ELSE UNCHANGED <<db, calls>>
    /\ ret' = IF mode = "incremental"
              THEN <<changed.streams, changed.parcels, changed.buffers>>
              ELSE <<>>
    /\ pc' = "done"
    /\ UNCHANGED <<mode, li, source, offset, batches, seen_ids, results,
                   changed, requested, fetchedKeys, sameAsStored, gdf, result,
                   handed>>
    /\ IdleUpsert
    /\ UNCHANGED <<nvars, wvars, evars>>

Next ==
    \/ StartRun
    \/ LoadWatershed
    \/ BeginLayer
    \/ FetchPage
    \/ StoreLayer
    \/ ParcelsPageIncremental
    \/ ParcelsQueryFull
    \/ ParcelsPageFull
    \/ ComputeFlags
    \/ BuffersStep
    \/ ComplianceStep
    \/ SummaryStep

Spec == Init /\ [][Next]_vars

\* ------------------------------------------------------------------------
\* Claims about one upsert call (checked under SpecUpsert)
\* ------------------------------------------------------------------------

\* indices of the batch rows that carry key k
RowsWithKey(s, k) == {i \in 1..Len(s) : s[i].key = k}
\* the last row of the batch, in batch order, that carries key k
LastRowWithKey(s, k) ==
    s[CHOOSE i \in RowsWithKey(s, k) : \A j \in RowsWithKey(s, k) : j <= i]
\* the conflict keys of the batch
BatchKeys(s) == {k \in Keys : RowsWithKey(s, k) # {}}
\* the batch rows whose conflict column is NULL
NullKeyRows(s) == Cardinality(RowsWithKey(s, NULL))

\* C4: when upsert has returned, every conflict key that two or more rows of
\* the batch carry is stored in the target (under the UNIQUE key: once) with
\* the update columns of the last such row in batch order.
C4_LastDuplicateWins ==
    upc = "returned" =>
        \A k \in Keys :
            Cardinality(RowsWithKey(gdf, k)) >= 2 =>
                /\ HasKey(target, k)
                /\ target.rows[k] = LastRowWithKey(gdf, k).val

\* C4 witness: upsert returned for a batch with two rows of one key and
\* different payloads, the target holding a third state of that key before.
C4_Witness ==
    /\ upc = "returned"
    /\ \E i, j \in 1..Len(gdf) :
          /\ i < j
          /\ KeyEq(gdf[i].key, gdf[j].key)
          /\ gdf[i].val # gdf[j].val
          /\ target0.rows[gdf[i].key] = gdf[i].val

\* no two rows of the batch carry the same key
DuplicateFree(s) == ~AffectsRowTwice(s)

\* C5: upsert returns inserted = the number of distinct conflict keys of the
\* batch absent from the target before the call, updated = the number of
\* distinct keys already present (a NULL conflict column is a key of its own
\* for every row, as for the UNIQUE constraint); rows deduplicated away
\* count in neither.  In particular a duplicate-free batch whose rows the
\* target already holds unchanged returns inserted = 0, updated = len(batch).
C5_UpsertCounts ==
    upc = "returned" =>
        /\ result[1] = Cardinality({k \in BatchKeys(gdf) : ~HasKey(target0, k)})
                       + NullKeyRows(gdf)
        /\ result[2] = Cardinality({k \in BatchKeys(gdf) : HasKey(target0, k)})
        /\ (DuplicateFree(gdf) /\ AlreadyUpserted(gdf, target0)) =>
               result = <<0, Len(gdf)>>

\* C5 witness: upsert returned for a batch with a duplicated key already in
\* the target and a key new to the target (counts 1 and 1 from 3 rows).
C5_Witness ==
    /\ upc = "returned"
    /\ Len(gdf) = 3
    /\ NullKeyRows(gdf) = 0
    /\ ~DuplicateFree(gdf)
    /\ result = <<1, 1>>

\* C5 witness of the special case: an unchanged duplicate-free batch of two
\* rows upserted again.
C5_WitnessAgain ==
    /\ upc = "returned"
    /\ Len(gdf) = 2
    /\ DuplicateFree(gdf)
    /\ AlreadyUpserted(gdf, target0)

\* C6: once upsert has returned or raised, no staging table exists.
C6_StagingDiscarded ==
    upc \in {"returned", "raised"} => staging = NoTable

\* C7: a failing merge step leaves the target exactly as it was before the
\* call, and the call raises instead of returning.
C7_MergeFailureAtomic ==
    failedAt = "merge" =>
        /\ upc = "raised"
        /\ target = target0
        /\ result = <<0, 0>>

\* C7 witness: the merge step failed on staged rows that a successful merge
\* would have written into the target.
C7_Witness ==
    /\ failedAt = "merge"
    /\ staging.rows # <<>>
    /\ MergeStaging(target0, staging.rows).table # target0


\* ------------------------------------------------------------------------
\* _load_layer_incremental alone
\* ------------------------------------------------------------------------

\* run_incremental has refreshed the watershed of a new database;
\* load_nhdplus_layers_incremental enters _load_layer_incremental for the
\* streams or for the waterbodies
FetchInit ==
    /\ db = [EmptyDb EXCEPT !.watersheds = {HUC8_CODE}]
    /\ mode = "incremental"
    /\ pc = "fetch"
    /\ li \in {1, 2}
    /\ source \in FetchSources
    /\ offset = 0
    /\ batches = <<>>
    /\ seen_ids = {}
    /\ results = [l \in Layers |-> NoResult]
    /\ changed = NoFlags
    /\ ret = <<>>
    /\ calls = <<Call("load_watershed", "watersheds")>>
    /\ requested = <<>>
    /\ fetchedKeys = {}
    /\ sameAsStored = TRUE
    /\ handed = <<>>
    /\ UpsertIdle
    /\ NdviIdle
    /\ WriterIdle
    /\ TrackerIdle
    /\ gdf = <<>>
    /\ result = <<0, 0>>

FetchNext ==
    \/ FetchPage
    \/ StoreLayer

SpecFetch == FetchInit /\ [][FetchNext]_vars

\* ------------------------------------------------------------------------
\* One reading: _process_scene and _extract_buffer_reading for a buffer that
\* covers one pixel of the scene
\* ------------------------------------------------------------------------

\* Sentinel-2 band values are unsigned
BandValues == 0..MaxBand

\* read_band_window has returned the two bands of a scene
ReadingInit ==
    /\ nir \in BandValues
    /\ red \in BandValues
    /\ acq_month \in Months
    /\ ndvi_array = Zero
    /\ mean_ndvi = Zero
    /\ season_context = "none"
    /\ health_category = "none"
    /\ rpc = "scene"
    /\ ExtractionIdle
    /\ WriterIdle
    /\ TrackerIdle
    /\ PipelineIdle
    /\ UpsertIdle
    /\ gdf = <<>>
    /\ result = <<0, 0>>

\* ndvi_array = calculate_ndvi(...); season = determine_season(acq_date);
\* _extract_buffer_reading: compute_ndvi_stats, classify_health
ExtractReading ==
    /\ rpc = "scene"
    /\ LET ndvi == calculate_ndvi(nir, red)
           season == determine_season(acq_month)
           mean_val == compute_ndvi_stats(ndvi)
       IN  /\ ndvi_array' = ndvi
           /\ mean_ndvi' = mean_val
           /\ season_context' = season
           /\ health_category' = classify_health(mean_val, season)
    /\ rpc' = "reading"
    /\ UNCHANGED <<nir, red, acq_month>>
    /\ UNCHANGED <<uvars, pvars, xvars, wvars, evars>>

ReadingNext == ExtractReading

SpecReading == ReadingInit /\ [][ReadingNext]_vars

\* ------------------------------------------------------------------------
\* Claims about one reading (checked under SpecReading)
\* ------------------------------------------------------------------------

\* C14: a reading of a dormant month is 'dormant' whatever its index value;
\* a peak-growing reading is 'healthy' iff its mean is above 0.3, 'degraded'
\* iff it is at least 0.15 and not above 0.3, 'bare' iff it is below 0.15;
\* the season is 'peak_growing' exactly in June, July and August and
\* 'dormant' in every other month.
C14_SeasonGatedHealth ==
    rpc = "reading" =>
        /\ season_context = "peak_growing" <=> acq_month \in {6, 7, 8}
        /\ season_context = "dormant" <=> acq_month \notin {6, 7, 8}
        /\ season_context = "dormant" => health_category = "dormant"
        /\ season_context = "peak_growing" =>
              /\ health_category = "healthy" <=>
                     10 * mean_ndvi.num > 3 * mean_ndvi.den
              /\ health_category = "degraded" <=>
                     /\ 100 * mean_ndvi.num >= 15 * mean_ndvi.den
                     /\ 10 * mean_ndvi.num <= 3 * mean_ndvi.den
              /\ health_category = "bare" <=>
                     100 * mean_ndvi.num < 15 * mean_ndvi.den

\* C14 witness: a peak-growing reading whose mean is exactly 0.3 was
\* classified (as 'degraded')
C14_Witness ==
    /\ rpc = "reading"
    /\ season_context = "peak_growing"
    /\ 10 * mean_ndvi.num = 3 * mean_ndvi.den
    /\ health_category = "degraded"

\* a dormant reading whose index is at least 0.95 was classified
C14_WitnessDormant ==
    /\ rpc = "reading"
    /\ season_context = "dormant"
    /\ 100 * mean_ndvi.num >= 95 * mean_ndvi.den
    /\ health_category = "dormant"

\* C15: calculate_ndvi gives 0.0 where NIR = Red (positive) and where NIR =
\* Red = 0, a finite value everywhere, and (NIR - Red) / (NIR + Red) for all
\* other non-negative inputs.
C15_NdviOfEqualBands ==
    rpc = "reading" =>
        /\ ndvi_array.den # 0
        /\ nir = red => ndvi_array.num = 0
        /\ nir # red =>
              ndvi_array.num * (nir + red) = (nir - red) * ndvi_array.den

\* C15 witness: the index of a pixel with NIR = Red = 0 was computed
C15_Witness ==
    /\ rpc = "reading"
    /\ nir = 0
    /\ red = 0
    /\ ndvi_array = Zero

\* the index of a pixel with NIR = Red > 0 was computed
C15_WitnessEqual ==
    /\ rpc = "reading"
    /\ nir = red
    /\ nir > 0
    /\ ndvi_array.num = 0

\* ------------------------------------------------------------------------
\* load_parcels_incremental and load_parcels alone
\* ------------------------------------------------------------------------

\* what the parcel service holds: parcels with and without parcel_id, a
\* parcel_id possibly more than once
ParcelSources == SeqsUpTo(Rows, MaxRows)

\* the watershed of a new database is loaded, the NHDPlus layers were empty,
\* and the run enters load_parcels_incremental or load_parcels
ParcelsInit ==
    /\ db = [EmptyDb EXCEPT !.watersheds = {HUC8_CODE}]
    /\ mode \in {"incremental", "full"}
    /\ pc = "parcels"
    /\ li = 3
    /\ source \in ParcelSources
    /\ offset = 0
    /\ batches = <<>>
    /\ seen_ids = {}
    /\ results = [l \in Layers |-> NoResult]
    /\ changed = NoFlags
    /\ ret = <<>>
    /\ calls = <<Call("load_watershed", "watersheds")>>
    /\ requested = <<>>
    /\ fetchedKeys = {}
    /\ sameAsStored = TRUE
    /\ handed = <<>>
    /\ UpsertIdle
    /\ NdviIdle
    /\ WriterIdle
    /\ TrackerIdle
    /\ gdf = <<>>
    /\ result = <<0, 0>>

ParcelsNext ==
    \/ ParcelsPageIncremental
    \/ ParcelsQueryFull
    \/ ParcelsPageFull

SpecParcels == ParcelsInit /\ [][ParcelsNext]_vars

\* ------------------------------------------------------------------------
\* Claims about the parcel loaders (checked under SpecParcels)
\* ------------------------------------------------------------------------

\* the incremental parcel loop takes its last step
LeavesParcelLoop == pc = "parcels" /\ mode = "incremental" /\ pc' # "parcels"

\* C11: load_parcels_incremental leaves its pagination loop only on a
\* fetched page (as the client returned it, null-key rows included) that is
\* empty or shorter than the batch size, and so every source row with a
\* non-null parcel_id has been handed to upsert when the loop is left.
C11_StopsOnFetchedPage ==
    [][LeavesParcelLoop =>
          /\ Len(QueryPage(source, offset, ARCGIS_BATCH_SIZE)) < ARCGIS_BATCH_SIZE
          /\ \A i \in 1..Len(source) :
                source[i].key # NULL =>
                    \E j \in 1..Len(handed') : handed'[j] = source[i]]_vars

\* C12: in one incremental parcel load no parcel_id is handed to upsert
\* twice, neither within one page nor on two pages.
C12_HandedAtMostOnce ==
    mode = "incremental" =>
        \A i, j \in 1..Len(handed) : i < j => handed[i].key # handed[j].key

\* C13: every row handed to upsert, for an NHDPlus layer (SpecFetch) or for
\* the parcels, carries a non-null conflict key: rows without one are dropped
\* before the upsert call.
C13_HandedRowsKeyed ==
    \A i \in 1..Len(handed) : handed[i].key # NULL

\* ------------------------------------------------------------------------
\* Claims about the pipelines (checked under Spec, C10 under SpecFetch)
\* ------------------------------------------------------------------------

\* how often the run has called op
CallCount(op) == Cardinality({i \in 1..Len(calls) : calls[i].op = op})
DerivedOps == {"generate_buffers", "analyze_compliance", "calculate_summary"}
NoDerivedCall == \A i \in 1..Len(calls) : calls[i].op \notin DerivedOps
AfterFlags == pc \in {"buffers", "compliance", "summary", "done"}
Returned == mode = "incremental" /\ pc = "done"

\* C1: in an incremental run whose streams_changed and parcels_changed are
\* both false, none of generate_buffers, analyze_compliance and
\* calculate_summary is invoked, and the run returns (False, False, False).
C1_NoChangeNoRecompute ==
    (mode = "incremental" /\ AfterFlags
        /\ ~changed.streams /\ ~changed.parcels) =>
        /\ NoDerivedCall
        /\ pc = "done" => ret = <<FALSE, FALSE, FALSE>>

\* C1 witness: an incremental run has returned with neither flag set, after
\* it refreshed the watershed.
C1_Witness ==
    /\ Returned
    /\ ~ret[1] /\ ~ret[2]
    /\ CallCount("load_watershed") = 1

\* C2: an incremental run that fetched, for streams, waterbodies and
\* parcels, exactly the rows the bronze tables already held invokes none of
\* generate_buffers, analyze_compliance and calculate_summary.
C2_UnchangedSkipsRecompute ==
    (Returned /\ sameAsStored) => NoDerivedCall

\* the derived tables
DerivedOutput(d) == <<d.buffers, d.compliance, d.summary>>
\* what the full run computes last: every derived table from the bronze ones
FullDerivation(d) == calculate_summary(analyze_compliance(generate_buffers(d)))

\* C3: a run that completes, full or incremental, leaves the derived tables
\* (buffers, compliance, summary) that the full run's derivation gives for
\* the bronze tables the run ends with.
C3_SameDerivedOutput ==
    pc = "done" => DerivedOutput(db) = DerivedOutput(FullDerivation(db))

\* the full run alone does leave them so
FullRunDerivesAll ==
    (mode = "full" /\ pc = "done") =>
        DerivedOutput(db) = DerivedOutput(FullDerivation(db))

Once(b) == IF b THEN 1 ELSE 0

\* C8: a returned incremental run invoked generate_buffers once if
\* streams_changed and never otherwise, returns buffers_changed =
\* streams_changed, invoked analyze_compliance once iff parcels_changed or
\* buffers_changed, and calculate_summary once iff one of the three is true.
C8_CascadeGates ==
    Returned =>
        /\ CallCount("generate_buffers") = Once(ret[1])
        /\ ret[3] = ret[1]
        /\ CallCount("analyze_compliance") = Once(ret[2] \/ ret[3])
        /\ CallCount("calculate_summary") = Once(ret[1] \/ ret[2] \/ ret[3])
        /\ ret[1] = has_changes(CombineResults(results.streams,
                                               results.waterbodies))
        /\ ret[2] = has_changes(results.parcels)

\* C8 witness: a returned incremental run in which only the streams changed:
\* buffers, compliance and summary were each recomputed once.
C8_Witness ==
    /\ Returned
    /\ ret = <<TRUE, FALSE, TRUE>>
    /\ CallCount("analyze_compliance") = 1

\* the place of a call in the order of an incremental run
Rank(c) ==
    IF c.op = "load_watershed" THEN 1
    ELSE IF c.op = "upsert" THEN (IF c.arg = "parcels" THEN 3 ELSE 2)
    ELSE IF c.op = "generate_buffers" THEN 4
    ELSE IF c.op = "analyze_compliance" THEN 5
    ELSE 6

\* C9: at every point of an incremental run the calls made so far are in the
\* order watershed refresh, stream and waterbody upserts, parcel upserts,
\* generate_buffers, analyze_compliance, calculate_summary; the watershed
\* refresh is the first of them.
C9_FixedOrder ==
    mode = "incremental" =>
        /\ \A i, j \in 1..Len(calls) : i < j => Rank(calls[i]) <= Rank(calls[j])
        /\ calls # <<>> => calls[1].op = "load_watershed"

\* C9 witness: a returned incremental run that upserted streams and
\* waterbodies, upserted parcels twice (two pages) and recomputed the summary.
C9_Witness ==
    /\ Returned
    /\ \E i, j \in 1..Len(calls) :
          /\ calls[i] = Call("upsert", "streams")
          /\ calls[j] = Call("upsert", "waterbodies")
    /\ Cardinality({i \in 1..Len(calls) : calls[i] = Call("upsert", "parcels")}) = 2
    /\ CallCount("calculate_summary") = 1

\* the rows of the pages at the offsets 0, B, ... (n offsets) of a source
PagesUpTo(src, n) == SubSeq(src, 1, Min(n * ARCGIS_BATCH_SIZE, Len(src)))
PageLen(src, off) == Len(QueryPage(src, off, ARCGIS_BATCH_SIZE))
\* _load_layer_incremental has just returned
LayerLoaded == mode = "incremental" /\ requested # <<>> /\ pc \notin {"fetch", "store"}

NdviInit ==
    /\ catalog \in Catalogs
    /\ vegetation_health = {}
    /\ today = 0
    /\ npc = "idle"
    /\ nmode = "none"
    /\ window = <<0, 0>>
    /\ processed = {}
    /\ items = <<>>
    /\ si = 1
    /\ all_readings = <<>>
    /\ nret = <<>>
    /\ searches = 0
    /\ band_reads = <<>>
    /\ written = <<>>
    /\ outcome = "none"
    /\ health0 = {}
    /\ prev = NoRun
    /\ returned = [noop |-> {}, no_scenes |-> {}]
    /\ interfered = FALSE
    /\ healed = NoHeal
    /\ ReadingIdle
    /\ WriterIdle
    /\ TrackerIdle
    /\ PipelineIdle
    /\ UpsertIdle
    /\ gdf = <<>>
    /\ result = <<0, 0>>

\* what every run resets when it begins
BeginExtraction ==
    /\ processed' = {}
    /\ items' = <<>>
    /\ si' = 1
    /\ all_readings' = <<>>
    /\ searches' = 0
    /\ band_reads' = <<>>
    /\ written' = <<>>
    /\ health0' = vegetation_health
    /\ interfered' = FALSE
    /\ prev' = [mode |-> nmode, today |-> window[2], interfered |-> interfered,
                 outcome |-> outcome]
    /\ healed' = IF healed.scene # 0 THEN [healed EXCEPT !.rerun = TRUE]
                  ELSE healed
    /\ UNCHANGED <<vegetation_health, today, catalog>>
    /\ UNCHANGED <<uvars, pvars, rvars, wvars, evars>>

\* a day passes between two runs
Tick ==
    /\ npc \in {"idle", "done", "raised"}
    /\ today < MaxDay
    /\ today' = today + 1
    /\ UNCHANGED <<vegetation_health, catalog, npc, nmode, window, processed,
                   items, si, all_readings, nret, searches, band_reads,
                   written, outcome, health0, prev, returned, interfered>>
    /\ UNCHANGED healed
    /\ UNCHANGED <<uvars, pvars, rvars, wvars, evars>>

\* process_buffers_incremental, up to the test start > end
StartIncremental ==
    /\ npc \in {"idle", "done", "raised"}
    /\ nmode' = "incremental"
    /\ LET last_date == get_last_ndvi_date(vegetation_health)
           start == WindowStart(last_date)
           end == today
       IN  /\ window' = <<start, end>>
           /\ IF start > end
              THEN /\ npc' = "done"
                   /\ nret' = <<0>>
                   /\ outcome' = "noop"
                   /\ returned' = [returned EXCEPT !.noop = @ \cup {0}]
              ELSE /\ npc' = "search"
                   /\ nret' = <<>>
                   /\ outcome' = "none"
                   /\ UNCHANGED returned
    /\ BeginExtraction

\* process_buffers_by_scene(date_range) is called
StartFull ==
    /\ npc \in {"idle", "done", "raised"}
    /\ nmode' = "full"
    /\ \E s \in SceneDays, e \in SceneDays : s <= e /\ window' = <<s, e>>
    /\ npc' = "search"
    /\ nret' = <<>>
    /\ outcome' = "none"
    /\ UNCHANGED returned
    /\ BeginExtraction

\* Another process (entrypoint --mode ndvi started by hand while the
\* scheduler's job runs) commits the readings of a scene after this run has
\* read the last date and before it reads the processed keys: the two
\* queries use a connection each and no lock.
ConcurrentWrite ==
    /\ npc = "search"
    /\ nmode = "incremental"
    /\ ~interfered
    /\ \E i \in 1..Len(catalog) :
          /\ catalog[i].date <= today
          /\ catalog[i].covers # {}
          /\ vegetation_health' = write_readings(vegetation_health,
                 SceneReadings(catalog[i], NoKeys))
    /\ interfered' = TRUE
    /\ UNCHANGED <<today, catalog, npc, nmode, window, processed, items, si,
                   all_readings, nret, searches, band_reads, written, outcome,
                   health0, prev, returned>>
    /\ UNCHANGED healed
    /\ UNCHANGED <<uvars, pvars, rvars, wvars, evars>>

\* get_processed_keys (incremental), _load_buffers, _load_watershed_bbox,
\* search_items, and the return if there are no items
Search ==
    /\ npc = "search"
    /\ processed' = IF nmode = "incremental" THEN vegetation_health ELSE NoKeys
    /\ items' = search_items(catalog, window, today)
    /\ searches' = searches + 1
    /\ IF items' = <<>>
       THEN /\ npc' = "done"
            /\ nret' = <<0>>
            /\ outcome' = "no_scenes"
            /\ returned' = IF nmode = "incremental"
                           THEN [returned EXCEPT !.no_scenes = @ \cup {0}]
                           ELSE returned
       ELSE /\ npc' = "scenes"
            /\ UNCHANGED <<nret, outcome, returned>>
    /\ UNCHANGED <<vegetation_health, today, catalog, nmode, window, si,
                   all_readings, band_reads, written, health0, prev, interfered>>
    /\ UNCHANGED healed
    /\ UNCHANGED <<uvars, pvars, rvars, wvars, evars>>

\* one iteration of the loop over the scenes: _parse_stac_item, then
\* _process_scene or _process_scene_incremental inside try / except
ProcessScene ==
    /\ npc = "scenes"
    /\ LET item == items[si]
           n == Len(items)
           skips == \/ ParsedNone(item)
                    \/ nmode = "incremental"
                          /\ Unprocessed(item.date, processed) = {}
           both == SceneBandReads(si)
       IN  IF skips
           THEN \* parsed is None: continue; or all buffers are processed:
                \* return []
                /\ si' = si + 1
                /\ npc' = IF si + 1 > n THEN "write" ELSE "scenes"
                /\ UNCHANGED <<band_reads, all_readings, outcome>>
           ELSE IF item.fault = "io_error"
           THEN \* read_band_window raises for B08, or for B04 after B08
                \* was read
                /\ \E k \in 1..2 : band_reads' = band_reads \o SubSeq(both, 1, k)
                /\ si' = AfterFailure(si, n)
                /\ npc' = IF si' > n THEN "write" ELSE "scenes"
                /\ UNCHANGED <<all_readings, outcome>>
           ELSE IF item.fault = "value_error"
           THEN /\ band_reads' = band_reads \o both
                /\ si' = AfterFailure(si, n)
                /\ npc' = IF si' > n THEN "write" ELSE "scenes"
                /\ UNCHANGED <<all_readings, outcome>>
           ELSE IF item.fault \in UncaughtFaults
           THEN \* no except clause matches: the exception leaves the loop
                \* and the method, all_readings is dropped
                /\ band_reads' = band_reads \o SubSeq(both, 1, 1)
                /\ npc' = "raised"
                /\ outcome' = "raised"
                /\ UNCHANGED <<si, all_readings>>
           ELSE /\ band_reads' = band_reads \o both
                /\ all_readings' = all_readings \o SceneReadings(item, processed)
                /\ si' = si + 1
                /\ npc' = IF si + 1 > n THEN "write" ELSE "scenes"
                /\ UNCHANGED outcome
    /\ UNCHANGED <<vegetation_health, today, catalog, nmode, window, processed,
                   items, nret, searches, written, health0, prev,
                   returned, interfered>>
    /\ UNCHANGED healed
    /\ UNCHANGED <<uvars, pvars, rvars, wvars, evars>>

\* count = self._writer.write_readings(all_readings); return count
WriteReadings ==
    /\ npc = "write"
    /\ vegetation_health' = write_readings(vegetation_health, all_readings)
    /\ written' = Append(written, all_readings)
    /\ nret' = <<Len(all_readings)>>
    /\ outcome' = "wrote"
    /\ npc' = "done"
    /\ UNCHANGED <<today, catalog, nmode, window, processed, items, si,
                   all_readings, searches, band_reads, health0, prev, returned,
                   interfered>>
    /\ UNCHANGED healed
    /\ UNCHANGED <<uvars, pvars, rvars, wvars, evars>>

NdviNext ==
    \/ Tick
    \/ StartIncremental
    \/ StartFull
    \/ ConcurrentWrite
    \/ Search
    \/ ProcessScene
    \/ WriteReadings

SpecNdvi == NdviInit /\ [][NdviNext]_vars

\* ------------------------------------------------------------------------
\* Claims about the NDVI extraction runs (checked under SpecNdvi)
\* ------------------------------------------------------------------------

\* the latest acquisition date stored in h
MaxDate(h) == CHOOSE d \in {KeyDate(k) : k \in h} : \A k \in h : KeyDate(k) <= d
\* process_buffers_incremental is called and runs up to its first return or
\* to the loading of the processed keys
StartsIncremental ==
npc \in {"idle", "done", "raised"} /\ today' = today /\ nmode' = "incremental"

\* C16: if a latest acquisition date is stored, the window of an incremental
\* run starts on the day after it and ends today; if the start is after the
\* end the run returns 0 with no catalog search, no band read and no write.
C16_IncrementalWindow ==
    [][StartsIncremental =>
          /\ window'[2] = today
          /\ vegetation_health # {} =>
                window'[1] = MaxDate(vegetation_health) + 1
          /\ window'[1] > window'[2] =>
                /\ npc' = "done"
                /\ nret' = <<0>>
                /\ searches' = 0
                /\ band_reads' = <<>>
                /\ written' = <<>>
                /\ vegetation_health' = vegetation_health]_vars

\* C16 witness: readings up to today are stored and the incremental run was
\* a no-op
C16_Witness ==
    /\ nmode = "incremental"
    /\ npc = "done"
    /\ health0 # {}
    /\ window = <<MaxDate(health0) + 1, today>>
    /\ window[1] > window[2]
    /\ nret = <<0>>
    /\ searches = 0

\* C17: what process_buffers_incremental returns when the window is empty
\* differs from what it returns when the catalog search finds no scene.
C17_NoopReportedDistinctly ==
    returned.noop \cap returned.no_scenes = {}

\* the scenes whose bands the run has read
ReadScenes == {band_reads[i][1] : i \in 1..Len(band_reads)}
\* the readings the run has extracted or handed to the writer
Emitted ==
    {all_readings[i] : i \in 1..Len(all_readings)}
    \cup UNION {{written[j][i] : i \in 1..Len(written[j])} : j \in 1..Len(written)}

\* C18: an incremental run reads no band of a scene for whose date every
\* buffer's key is in the processed set, and every reading it extracts and
\* hands to the writer has a key outside the processed set it loaded.
C18_ProcessedKeysSkipped ==
    nmode = "incremental" =>
        /\ \A i \in ReadScenes :
              \E b \in Buffers : Key(b, items[i].date) \notin processed
        /\ \A k \in Emitted : k \notin processed

\* C18 witness: the run went past a scene with a date without reading its
\* bands, because every buffer's key for that date was processed, and it
\* handed readings of another scene to the writer
C18_Witness ==
    /\ nmode = "incremental"
    /\ outcome = "wrote"
    /\ written # <<<<>>>>
    /\ \E i \in 1..Len(items) :
          /\ items[i].fault = "none"
          /\ \A b \in Buffers : Key(b, items[i].date) \in processed
          /\ i \notin ReadScenes

ExpectedFrom(item) ==
    IF item.fault # "none" THEN <<>>
    ELSE IF nmode = "incremental" THEN ReadingsFrom(1, item, processed)
    ELSE ReadingsFrom(1, item, NoKeys)
RECURSIVE ExpectedUpTo(_)
\* what a run extracts from the first n scenes
ExpectedUpTo(n) ==
    IF n = 0 THEN <<>> ELSE ExpectedUpTo(n - 1) \o ExpectedFrom(items[n])

\* C20: a scene that fails (a band or the datetime is missing, a band cannot
\* be read, a geometry is invalid) ends only its own processing: the run
\* goes through all scenes, and the writer receives the readings of every
\* other scene, before and after the failing one.
C20_SceneFailureIsLocal ==
    /\ npc = "scenes" => all_readings = ExpectedUpTo(si - 1)
    /\ npc = "write" => si = Len(items) + 1
    /\ outcome = "wrote" => written = <<ExpectedUpTo(Len(items))>>
    /\ (npc = "done" /\ items # <<>>) => outcome = "wrote"

\* C20 witness: the writer received the readings of the scenes before and
\* after a scene that raised
C20_Witness ==
    /\ outcome = "wrote"
    /\ \E i, j, k \in 1..Len(items) :
          /\ i < j
          /\ j < k
          /\ items[j].fault \in RaisedFaults
          /\ j \in ReadScenes
          /\ ExpectedFrom(items[i]) # <<>>
          /\ ExpectedFrom(items[k]) # <<>>
          /\ Len(written[1]) =
                Len(ExpectedFrom(items[i])) + Len(ExpectedFrom(items[k]))

\* ------------------------------------------------------------------------
\* Claims about failures and costs of an extraction run (SpecNdvi)
\* ------------------------------------------------------------------------

\* the readings extracted so far in this run
Extracted == {all_readings[i] : i \in 1..Len(all_readings)}

\* C21: when a run has ended, by returning or by raising, every reading it
\* extracted from the scenes it processed is stored.
C21_PartialProgressPersisted ==
    npc \in {"done", "raised"} => Extracted \subseteq vegetation_health

\* C22: a run searches the catalog at most once, reads no band of a scene
\* twice, and so calls read_band_window at most twice per scene the search
\* returned, however many buffers there are.
C22_TwoBandReadsPerScene ==
    /\ searches <= 1
    /\ Len(band_reads) <= 2 * Len(items)
    /\ \A i, j \in 1..Len(band_reads) :
          i # j => band_reads[i] # band_reads[j]

\* C22 witness: a scene-first run over two scenes, each giving a reading for
\* more than one buffer, read four bands and handed the readings to the
\* writer
C22_Witness ==
    /\ nmode = "full"
    /\ outcome = "wrote"
    /\ searches = 1
    /\ Len(items) = 2
    /\ \A i \in 1..2 : Cardinality(items[i].covers) > 1
    /\ Len(band_reads) = 4
    /\ Len(written[1]) > Len(band_reads) \div 2

\* ------------------------------------------------------------------------
\* PostGISNdviWriter.write_readings on rows with values (SpecWriter)
\* ------------------------------------------------------------------------

\* A reading as write_readings binds it: the key columns (buffer_id,
\* acquisition_date, satellite) and val for the other columns (mean_ndvi,
\* min_ndvi, max_ndvi, health_category, season_context) taken together.
NdviReading(b, d, v) == [key |-> Key(b, d), val |-> v]
WriterReadings == {NdviReading(b, June1, v) : b \in Buffers, v \in Vals}
\* the states of the table: no two rows with the same key
StoredRows ==
    {S \in SUBSET WriterReadings : \A a, b \in S : a.key = b.key => a = b}

\* (for comparison) ON CONFLICT (...) DO UPDATE
InsertOrUpdate(rows, r) == {s \in rows : s.key # r.key} \cup {r}
\* INSERT ... VALUES (...) ON CONFLICT (buffer_id, acquisition_date,
\* satellite) DO NOTHING, for one row of params
InsertReading(rows, r) ==
    IF \E s \in rows : s.key = r.key THEN rows ELSE rows \cup {r}

RECURSIVE ExecuteMany(_, _)
\* conn.execute(self._INSERT_SQL, params): the statement once per row of
\* params, in order
ExecuteMany(rows, ps) ==
    IF ps = <<>> THEN rows
    ELSE ExecuteMany(InsertReading(rows, Head(ps)), Tail(ps))

\* what write_readings returns: 0 for an empty list, else len(readings)
WriteCount(ps) == IF ps = <<>> THEN 0 ELSE Len(ps)

WriterInit ==
    /\ vh_rows \in StoredRows
    /\ vh_rows0 = vh_rows
    /\ params = <<>>
    /\ vh_once = {}
    /\ wret = <<>>
    /\ wpc = "idle"
    /\ ExtractionIdle
    /\ ReadingIdle
    /\ TrackerIdle
    /\ PipelineIdle
    /\ UpsertIdle
    /\ gdf = <<>>
    /\ result = <<0, 0>>

\* write_readings(readings) is called
WriteOnce ==
    /\ wpc = "idle"
    /\ \E l \in SeqsUpTo(WriterReadings, MaxBatch) : params' = l
    /\ vh_rows' = ExecuteMany(vh_rows, params')
    /\ vh_once' = vh_rows'
    /\ wret' = <<WriteCount(params')>>
    /\ wpc' = "once"
    /\ UNCHANGED vh_rows0
    /\ UNCHANGED <<uvars, pvars, nvars, evars>>

\* write_readings is called again with the same list
WriteAgain ==
    /\ wpc = "once"
    /\ vh_rows' = ExecuteMany(vh_rows, params)
    /\ wret' = Append(wret, WriteCount(params))
    /\ wpc' = "twice"
    /\ UNCHANGED <<vh_rows0, params, vh_once>>
    /\ UNCHANGED <<uvars, pvars, nvars, evars>>

WriterNext == WriteOnce \/ WriteAgain

SpecWriter == WriterInit /\ [][WriterNext]_vars

\* C23: the table holds at most one row per key; every row that was stored
\* before the calls is still stored as it was, whatever the lists held under
\* its key; and the second call with the same list leaves the table as the
\* first call left it.
C23_IdempotentInsert ==
    /\ \A a, b \in vh_rows : a.key = b.key => a = b
    /\ vh_rows0 \subseteq vh_rows
    /\ wpc = "twice" => vh_rows = vh_once

\* C23 witness: the list was written twice; it held a reading under a stored
\* key with another value, and two readings with different values under one
\* new key, of which the first is stored
C23_Witness ==
    /\ wpc = "twice"
    /\ \E i \in 1..Len(params) :
          /\ \E s \in vh_rows0 : s.key = params[i].key /\ s # params[i]
    /\ \E i, j \in 1..Len(params) :
          /\ i < j
          /\ params[i].key = params[j].key
          /\ params[i].val # params[j].val
          /\ \A s \in vh_rows0 : s.key # params[i].key
          /\ params[i] \in vh_rows

\* ------------------------------------------------------------------------
\* entrypoint.execute_run and RunTracker (SpecRun)
\* ------------------------------------------------------------------------

\* update_type: the four known types, and "other" for any other string
\* (main passes the value of ETL_MODE on as it is)
UpdateTypes == {"full", "incremental", "ndvi", "all", "other"}

\* the calls of the branch execute_run takes, before complete_run
Branch(t) ==
    CASE t = "full" -> <<"run">>
      [] t = "incremental" -> <<"run_incremental">>
      [] t = "ndvi" -> <<"_run_ndvi", "update_summary_ndvi">>
      [] t = "all" -> <<"run_incremental", "_run_ndvi", "update_summary_ndvi">>
      [] OTHER -> <<>>

\* An exception in flight: its class, as far as except Exception tells
\* classes apart ("Exception" for the subclasses of Exception,
\* "BaseException" for KeyboardInterrupt and SystemExit), and str(exc),
\* which names the call that raised.
Raise(cls, msg) == [cls |-> cls, msg |-> msg]

\* what run_incremental can return: (streams_changed, parcels_changed,
\* buffers_changed), buffers_changed being streams_changed
ChangeFlags == {<<s, p, s>> : s \in BOOLEAN, p \in BOOLEAN}
\* what _run_ndvi can return
Counts == 0..1

\* INSERT INTO meta.etl_runs (run_type, status) VALUES (:run_type, 'running')
start_run(runs, run_type) ==
    Append(runs, [run_type |-> run_type, status |-> "running",
                  error_message |-> NoExc, records_inserted |-> 0,
                  flags |-> <<FALSE, FALSE, FALSE>>])

\* UPDATE meta.etl_runs SET status = 'completed', ... WHERE id = :run_id
complete_run(runs, run_id, inserted, flags) ==
    [runs EXCEPT ![run_id].status = "completed",
                 ![run_id].records_inserted = inserted,
                 ![run_id].flags = flags]

\* UPDATE meta.etl_runs SET status = 'failed', error_message = :error
\* WHERE id = :run_id
fail_run(runs, run_id, error) ==
    [runs EXCEPT ![run_id].status = "failed", ![run_id].error_message = error]

RunInit ==
    /\ TrackerIdle
    /\ WriterIdle
    /\ ExtractionIdle
    /\ ReadingIdle
    /\ PipelineIdle
    /\ UpsertIdle
    /\ gdf = <<>>
    /\ result = <<0, 0>>

\* execute_run(update_type) is called
ExecuteRun ==
    /\ epc \in {"idle", "returned", "raised"}
    /\ Len(etl_runs) < MaxRuns
    /\ update_type' \in UpdateTypes
    /\ epc' = "start"
    /\ estep' = 1
    /\ exc' = NoExc
    /\ elocals' = NoLocals
    /\ escaped' = NoExc
    /\ UNCHANGED etl_runs
    /\ UNCHANGED <<uvars, pvars, nvars, wvars>>

\* run_id = tracker.start_run(update_type), before the try statement: the
\* row is inserted, or the statement raises and execute_run with it
TrackerStart ==
    /\ epc = "start"
    /\ \/ /\ etl_runs' = start_run(etl_runs, update_type)
          /\ elocals' = [elocals EXCEPT !.run_id = Len(etl_runs')]
          /\ epc' = "body"
          /\ UNCHANGED escaped
       \/ /\ escaped' = Raise("Exception", "start_run")
          /\ epc' = "raised"
          /\ UNCHANGED <<etl_runs, elocals>>
    /\ UNCHANGED <<update_type, estep, exc>>
    /\ UNCHANGED <<uvars, pvars, nvars, wvars>>

\* the next call of the branch returns or raises; an unknown update_type
\* raises ValueError
BranchCall ==
    /\ epc = "body"
    /\ LET calls_ == Branch(update_type)
       IN  IF calls_ = <<>>
           THEN /\ exc' = Raise("Exception", "Unknown update type")
                /\ epc' = "except"
                /\ UNCHANGED <<estep, elocals, escaped>>
           ELSE LET call == calls_[estep]
                    last == estep = Len(calls_)
                IN  \/ /\ \/ /\ call = "run_incremental"
                             /\ \E f \in ChangeFlags :
                                   elocals' = [elocals EXCEPT !.flags = f]
                          \/ /\ call = "_run_ndvi"
                             /\ \E c \in Counts :
                                   elocals' = [elocals EXCEPT !.count = c]
                          \/ /\ call \in {"run", "update_summary_ndvi"}
                             /\ UNCHANGED elocals
                       /\ estep' = estep + 1
                       /\ epc' = IF last THEN "complete" ELSE "body"
                       /\ UNCHANGED <<exc, escaped>>
                    \/ /\ exc' = Raise("Exception", call)
                       /\ epc' = "except"
                       /\ UNCHANGED <<estep, elocals, escaped>>
                    \/ \* not a subclass of Exception: no handler
                       /\ escaped' = Raise("BaseException", call)
                       /\ epc' = "raised"
                       /\ UNCHANGED <<estep, elocals, exc>>
    /\ UNCHANGED <<etl_runs, update_type>>
    /\ UNCHANGED <<uvars, pvars, nvars, wvars>>

\* tracker.complete_run(run_id, ...), inside the try statement: the row is
\* updated and execute_run returns, or the statement raises
TrackerComplete ==
    /\ epc = "complete"
    /\ \/ /\ etl_runs' = complete_run(etl_runs, elocals.run_id, elocals.count,
                                      elocals.flags)
          /\ epc' = "returned"
          /\ UNCHANGED <<exc, escaped>>
       \/ /\ exc' = Raise("Exception", "complete_run")
          /\ epc' = "except"
          /\ UNCHANGED <<etl_runs, escaped>>
    /\ UNCHANGED <<update_type, estep, elocals>>
    /\ UNCHANGED <<uvars, pvars, nvars, wvars>>

\* except Exception as exc: tracker.fail_run(run_id, str(exc)); raise.  The
\* row is updated and exc is raised again, or fail_run raises in its turn
TrackerFail ==
    /\ epc = "except"
    /\ \/ /\ etl_runs' = fail_run(etl_runs, elocals.run_id, exc.msg)
          /\ escaped' = exc
       \/ /\ escaped' = Raise("Exception", "fail_run")
          /\ UNCHANGED etl_runs
    /\ epc' = "raised"
    /\ UNCHANGED <<update_type, estep, exc, elocals>>
    /\ UNCHANGED <<uvars, pvars, nvars, wvars>>

RunNext ==
    \/ ExecuteRun
    \/ TrackerStart
    \/ BranchCall
    \/ TrackerComplete
    \/ TrackerFail

SpecRun == RunInit /\ [][RunNext]_vars

\* the row of the run this call of execute_run started
RunRow == etl_runs[elocals.run_id]
\* the call has started a run and has returned or raised
RunEnded == epc \in {"returned", "raised"} /\ elocals.run_id # 0

\* C24: once execute_run has returned or raised for a run it started, the
\* run is recorded as failed with the message of the exception that reached
\* the caller if it raised, and as completed if it returned; it is never
\* left as running.
C24_RunRecordedOnce ==
    RunEnded =>
        /\ RunRow.status \in {"completed", "failed"}
        /\ epc = "returned" <=> RunRow.status = "completed"
        /\ epc = "raised" =>
              /\ RunRow.status = "failed"
              /\ RunRow.error_message = escaped.msg

\* ------------------------------------------------------------------------
\* The pipelines with NDVI readings stored between the runs (SpecSilver)
\* ------------------------------------------------------------------------

\* An NDVI run (execute_run("ndvi")) between two pipeline runs stores
\* readings for the buffers there are.
NdviRunStores ==
    /\ pc \in {"idle", "done", "failed"}
    /\ TableKeys(db.buffers) # {}
    /\ db.vegetation_health # TableKeys(db.buffers)
    /\ db' = [db EXCEPT !.vegetation_health = TableKeys(db.buffers)]
    /\ UNCHANGED <<mode, pc, li, source, offset, batches, seen_ids, results,
                   changed, ret, calls, requested, fetchedKeys, sameAsStored,
                   handed, gdf, result>>
    /\ IdleUpsert
    /\ UNCHANGED <<nvars, wvars, evars>>

SilverNext == Next \/ NdviRunStores

SpecSilver == Init /\ [][SilverNext]_vars

\* C25: no step of an incremental run removes a reading from
\* silver.vegetation_health.
C25_IncrementalKeepsReadings ==
    [][mode' = "incremental" =>
          db.vegetation_health \subseteq db'.vegetation_health]_vars

\* ------------------------------------------------------------------------
\* Claims about the gold summary and the parcel loop
\* ------------------------------------------------------------------------

\* positions in calls of the calls of op
CallsOf(op) == {i \in 1..Len(calls) : calls[i].op = op}

\* C26: a run that called load_watershed and completed called
\* calculate_summary after it, and gold.riparian_summary holds a row when
\* the run is done.
C26_SummaryRebuiltAfterWatershed ==
    (pc = "done" /\ CallsOf("load_watershed") # {}) =>
        /\ \E i \in CallsOf("load_watershed"), j \in CallsOf("calculate_summary") :
              i < j
        /\ db.summary # {}

\* the parcel loaders under a scheduler that keeps the loop running: an
\* iteration that can change the state is taken
SpecParcelsFair == SpecParcels /\ WF_vars(ParcelsNext)

\* C27: load_parcels leaves its pagination loop, whatever the pages hold.
C27_LoadParcelsTerminates ==
    (mode = "full" /\ pc = "parcels") ~> (pc \notin {"parcels", "parcels_page"})

\* ------------------------------------------------------------------------
\* Claims about the count, the watermark and the first run (SpecNdvi,
\* SpecHeal)
\* ------------------------------------------------------------------------

\* C28: no list handed to the writer holds a key twice, and the count a run
\* returns after writing is the number of readings the run added to
\* silver.vegetation_health (no other process writing meanwhile).
C28_CountIsNewReadings ==
    /\ \A j \in 1..Len(written) :
          \A a, b \in 1..Len(written[j]) :
              a # b => written[j][a] # written[j][b]
    /\ (outcome = "wrote" /\ ~interfered) =>
          nret = <<Cardinality(vegetation_health \ health0)>>

\* C30: an incremental run that finds no reading stored takes June 1 as the
\* start of a window that is not empty, and so goes on to the catalog search
\* instead of returning as up to date.
C30_FirstRunHasWindow ==
    (nmode = "incremental" /\ health0 = {}) =>
        /\ window[1] = June1
        /\ window[1] <= window[2]
        /\ outcome # "noop"

\* ------------------------------------------------------------------------
\* Incremental runs with a failure that clears between two runs (SpecHeal)
\* ------------------------------------------------------------------------

\* An incremental run has returned; it read a scene that raised a caught
\* failure and stored a reading of a later date.  Now what made the scene
\* fail is over (the band can be read again): the scene, still in the
\* catalog with its date, yields readings for some buffers.
ClearFailure ==
    /\ npc = "done"
    /\ nmode = "incremental"
    /\ outcome = "wrote"
    /\ healed = NoHeal
    /\ \E i \in 1..Len(catalog), j \in 1..Len(items) :
          /\ catalog[i] = items[j]
          /\ items[j].fault \in RaisedFaults
          /\ \E r \in 1..Len(band_reads) : band_reads[r][1] = j
          /\ \E k \in 1..Len(written[1]) :
                KeyDate(written[1][k]) > items[j].date
          /\ \E c \in (SUBSET Buffers) \ {{}} :
                catalog' = [catalog EXCEPT ![i] = Scene(@.date, "none", c)]
          /\ healed' = [scene |-> i, rerun |-> FALSE]
    /\ UNCHANGED <<vegetation_health, today, npc, nmode, window, processed,
                   items, si, all_readings, nret, searches, band_reads,
                   written, outcome, health0, prev, returned, interfered>>
    /\ UNCHANGED <<uvars, pvars, rvars, wvars, evars>>

HealNext ==
    \/ Tick
    \/ StartIncremental
    \/ Search
    \/ ProcessScene
    \/ WriteReadings
    \/ ClearFailure

SpecHeal == NdviInit /\ [][HealNext]_vars

\* C29: when an incremental run that began after the failure of a scene was
\* cleared has returned, the readings of that scene are stored.
C29_SkippedSceneRecovered ==
    (healed.rerun /\ nmode = "incremental" /\ npc = "done") =>
        \A b \in catalog[healed.scene].covers :
            Key(b, catalog[healed.scene].date) \in vegetation_health

====
